---- MODULE Spec2Model ----
(***************************************************************************)
(* FIX log to CSV converter (Assignment1/fix_to_csv.py).                   *)
(*                                                                         *)
(* A Python str is modelled as a sequence of one-character strings, so     *)
(* that splitting, stripping and searching are computed character by       *)
(* character as the interpreter does.  A dict is a function whose domain   *)
(* is the set of its keys.                                                 *)
(***************************************************************************)
EXTENDS Naturals, Sequences, FiniteSets

VARIABLES
    env,        \* the file system: what opening each of the two paths does
    pc,         \* "main" (main called), "start" (process_fix_file called),
                \* "loop", "done", "exit2" (main returned 2), "raised"
    orders,     \* process_fix_file: orders, ClOrdID -> captured order fields
    out,        \* the rows handed to writer.writerow, in order
    seen,       \* history: the decoded message of every non-empty line read
    n,          \* history: number of lines read from the input file
    runs,       \* history: invocations of process_fix_file that have returned
    earlier,    \* history: ids of the new orders read by those invocations
    line,       \* split_fix_message: its argument
    separator,  \* split_fix_message: the local `separator`
    parts,      \* split_fix_message: the local `parts`
    fields,     \* split_fix_message: the returned dict
    returned,   \* split_fix_message: TRUE once it has returned
    files,      \* router: what each of the three model_paths holds
    cached,     \* router: the attribute best_price_improvement._models
    loads,      \* router history: calls of joblib.load made so far
    args,       \* router: the arguments of the latest call
    features,   \* router: the row of the local `features` in that call
    result,     \* router: how the latest call ended
    calls,      \* router history: calls of best_price_improvement so far
    orders_v1,  \* "Assignment 1" copy of process_fix_file: its orders
    out_v1      \* "Assignment 1" copy: the rows handed to its writer

vars ==
    <<env, pc, orders, out, seen, n, runs, earlier,
      line, separator, parts, fields, returned,
      files, cached, loads, args, features, result, calls,
      orders_v1, out_v1>>
pairVars == <<orders_v1, out_v1>>
runVars == <<runs, earlier>>
routerVars == <<files, cached, loads, args, features, result, calls>>
procVars == <<env, pc, orders, out, seen, n>>
splitVars == <<line, separator, parts, fields, returned>>

----------------------------------------------------------------------------
(* Bounds *)

\* longest line given to split_fix_message on its own
MaxLineLen == 5
\* longest input file, in lines
MaxLines == 3
\* most invocations of process_fix_file after the first
MaxRuns == 2
\* most calls of best_price_improvement in one process
MaxCalls == 2

----------------------------------------------------------------------------
(* Characters and Python values *)

\* the single control character U+0001
SOH == "SOH"
\* Python's None, where a character or a separator is expected
None == "None"
\* Python's None, where a str is expected (dict.get with no default)
NoneStr == <<None>>
\* the empty str
EmptyStr == <<>>
\* the empty dict
EmptyDict == [k \in {} |-> EmptyStr]

\* the characters str.strip() and str.split() treat as whitespace
Whitespace == {" ", "\t", "\n", "\r", "\f"}

\* a slip: the pipe is not among the candidates
SOH_CHARS_NoPipe == <<SOH, SOH>>

\* fix_to_csv.py:15  '\x01' and '\u0001' are the same character
SOH_CHARS == <<SOH, SOH, "|">>

\* `c in s` for a one-character c
Contains(c, s) == \E i \in 1..Len(s) : s[i] = c

\* s.find(c) for a one-character c that occurs in s (1-based)
Find(c, s) == CHOOSE i \in 1..Len(s) : s[i] = c /\ \A j \in 1..(i-1) : s[j] # c

\* s.lstrip()
RECURSIVE lstrip(_)
lstrip(s) == IF s # <<>> /\ Head(s) \in Whitespace THEN lstrip(Tail(s)) ELSE s

\* s.rstrip()
RECURSIVE rstrip(_)
rstrip(s) ==
    IF s # <<>> /\ s[Len(s)] \in Whitespace
    THEN rstrip(SubSeq(s, 1, Len(s) - 1))
    ELSE s

\* s.strip()
strip(s) == lstrip(rstrip(s))

\* s.rstrip('\n')
RECURSIVE rstrip_nl(_)
rstrip_nl(s) ==
    IF s # <<>> /\ s[Len(s)] = "\n"
    THEN rstrip_nl(SubSeq(s, 1, Len(s) - 1))
    ELSE s

\* s.split(sep) for a one-character sep: every occurrence splits, empty
\* strings are kept
RECURSIVE split_sep(_, _)
split_sep(s, sep) ==
    IF ~Contains(sep, s)
    THEN <<s>>
    ELSE LET i == Find(sep, s)
         IN  <<SubSeq(s, 1, i - 1)>> \o split_sep(SubSeq(s, i + 1, Len(s)), sep)

\* length of the longest whitespace-free prefix of s
RECURSIVE WordLen(_)
WordLen(s) ==
    IF s = <<>> \/ Head(s) \in Whitespace THEN 0 ELSE 1 + WordLen(Tail(s))

\* s.split(): runs of whitespace split, no empty strings
RECURSIVE split_ws(_)
split_ws(s) ==
    LET t == lstrip(s)
        k == WordLen(t)
    IN  IF t = <<>>
        THEN <<>>
        ELSE <<SubSeq(t, 1, k)>> \o split_ws(SubSeq(t, k + 1, Len(t)))

\* d[k] = v
Put(d, k, v) == [x \in (DOMAIN d) \cup {k} |-> IF x = k THEN v ELSE d[x]]

\* d.get(k, default)
Get(d, k, default) == IF k \in DOMAIN d THEN d[k] ELSE default

----------------------------------------------------------------------------
(* split_fix_message *)

\* a slip: the candidates tried from the last to the first
DetectSeparator_LastFirst(s) ==
    LET hits == {i \in 1..Len(SOH_CHARS) : Contains(SOH_CHARS[i], s)}
    IN  IF hits = {}
        THEN None
        ELSE SOH_CHARS[CHOOSE i \in hits : \A j \in hits : i >= j]

\* fix_to_csv.py:31-35  the first candidate that occurs in the line
DetectSeparator(s) ==
    LET hits == {i \in 1..Len(SOH_CHARS) : Contains(SOH_CHARS[i], s)}
    IN  IF hits = {}
        THEN None
        ELSE SOH_CHARS[CHOOSE i \in hits : \A j \in hits : i <= j]

\* fix_to_csv.py:37-41
SplitParts(s, sep) ==
    IF sep = None THEN split_ws(strip(s)) ELSE split_sep(strip(s), sep)

\* s.rfind(c) for a one-character c that occurs in s (1-based)
FindLast(c, s) ==
    CHOOSE i \in 1..Len(s) : s[i] = c /\ \A j \in (i+1)..Len(s) : s[j] # c

\* a slip: part.rsplit('=', 1), the split on the last '='
SplitTagValue_Last(part) ==
    << SubSeq(part, 1, FindLast("=", part) - 1),
       SubSeq(part, FindLast("=", part) + 1, Len(part)) >>

\* fix_to_csv.py:50  part.split('=', 1) of a part that contains '=':
\* <<tag, value>>
SplitTagValue(part) ==
    << SubSeq(part, 1, Find("=", part) - 1),
       SubSeq(part, Find("=", part) + 1, Len(part)) >>

\* fix_to_csv.py:43-51  the loop over parts, from the dict built so far
RECURSIVE DecodeParts(_, _)
DecodeParts(ps, d) ==
    IF ps = <<>>
    THEN d
    ELSE LET part == Head(ps)
         IN  IF part = <<>>
             THEN DecodeParts(Tail(ps), d)
             ELSE IF ~Contains("=", part)
             THEN DecodeParts(Tail(ps), d)
             ELSE LET tv == SplitTagValue(part)
                  IN  DecodeParts(Tail(ps), Put(d, tv[1], tv[2]))

\* fix_to_csv.py:18-53
split_fix_message(s) == DecodeParts(SplitParts(s, DetectSeparator(s)), EmptyDict)

----------------------------------------------------------------------------
(* process_fix_file *)

\* the FIX tags the converter reads
T35 == <<"3", "5">>
T11 == <<"1", "1">>
T60 == <<"6", "0">>
T55 == <<"5", "5">>
T54 == <<"5", "4">>
T38 == <<"3", "8">>
T44 == <<"4", "4">>
T6 == <<"6">>
T30 == <<"3", "0">>
T150 == <<"1", "5", "0">>
T39 == <<"3", "9">>
T40 == <<"4", "0">>

\* fix_to_csv.py:71-81
csv_header == <<
    <<"O", "r", "d", "e", "r", "I", "D">>,
    <<"O", "r", "d", "e", "r", "T", "r", "a", "n", "s", "a", "c", "t",
      "T", "i", "m", "e">>,
    <<"E", "x", "e", "c", "u", "t", "i", "o", "n", "T", "r", "a", "n", "s",
      "a", "c", "t", "T", "i", "m", "e">>,
    <<"S", "y", "m", "b", "o", "l">>,
    <<"S", "i", "d", "e">>,
    <<"O", "r", "d", "e", "r", "Q", "t", "y">>,
    <<"L", "i", "m", "i", "t", "P", "r", "i", "c", "e">>,
    <<"A", "v", "g", "P", "x">>,
    <<"L", "a", "s", "t", "M", "k", "t">> >>

\* Python's `a or b` on two str
Or(a, b) == IF a # EmptyStr THEN a ELSE b

\* Python's `not s` for s a str or None
Not(s) == s = NoneStr \/ s = EmptyStr

\* fix_to_csv.py:104-111  the dict stored for a NewOrderSingle
OrderEntry(cl_ord_id, message) ==
    [t \in {T11, T60, T55, T54, T38, T44} |->
        IF t = T11 THEN cl_ord_id ELSE Get(message, t, EmptyStr)]

\* a slip: the three sub-fields joined by `and`, so that one fitting
\* sub-field is enough
IsFullLimitFill_AnyOne(message) ==
    ~ (/\ Get(message, T150, NoneStr) # <<"2">>
       /\ Get(message, T39, NoneStr) # <<"2">>
       /\ Get(message, T40, NoneStr) # <<"2">>)

\* fix_to_csv.py:116-118  the ExecutionReport is a full fill of a limit order
IsFullLimitFill(message) ==
    ~ (\/ Get(message, T150, NoneStr) # <<"2">>
       \/ Get(message, T39, NoneStr) # <<"2">>
       \/ Get(message, T40, NoneStr) # <<"2">>)

\* a slip: the two timestamps in each other's column
FillRow_SwappedTimes(cl_ord_id, order, message) ==
    << cl_ord_id,
       Get(message, T60, EmptyStr),
       Get(order, T60, EmptyStr),
       Or(Get(order, T55, EmptyStr), Get(message, T55, EmptyStr)),
       Or(Get(order, T54, EmptyStr), Get(message, T54, EmptyStr)),
       Or(Get(order, T38, EmptyStr), Get(message, T38, EmptyStr)),
       Or(Get(order, T44, EmptyStr), Get(message, T44, EmptyStr)),
       Get(message, T6, EmptyStr),
       Get(message, T30, EmptyStr) >>

\* a slip: the order's timestamp falls back to the execution's, like the
\* four fields after it
FillRow_TimeFallback(cl_ord_id, order, message) ==
    << cl_ord_id,
       Or(Get(order, T60, EmptyStr), Get(message, T60, EmptyStr)),
       Get(message, T60, EmptyStr),
       Or(Get(order, T55, EmptyStr), Get(message, T55, EmptyStr)),
       Or(Get(order, T54, EmptyStr), Get(message, T54, EmptyStr)),
       Or(Get(order, T38, EmptyStr), Get(message, T38, EmptyStr)),
       Or(Get(order, T44, EmptyStr), Get(message, T44, EmptyStr)),
       Get(message, T6, EmptyStr),
       Get(message, T30, EmptyStr) >>

\* a slip: a cell is written only when it has a value
FillRow_OmitEmpty(cl_ord_id, order, message) ==
    SelectSeq(<< cl_ord_id,
                 Get(order, T60, EmptyStr),
                 Get(message, T60, EmptyStr),
                 Or(Get(order, T55, EmptyStr), Get(message, T55, EmptyStr)),
                 Or(Get(order, T54, EmptyStr), Get(message, T54, EmptyStr)),
                 Or(Get(order, T38, EmptyStr), Get(message, T38, EmptyStr)),
                 Or(Get(order, T44, EmptyStr), Get(message, T44, EmptyStr)),
                 Get(message, T6, EmptyStr),
                 Get(message, T30, EmptyStr) >>,
              LAMBDA cell : cell # EmptyStr)

\* fix_to_csv.py:131-151  the row written for a matched fill
FillRow(cl_ord_id, order, message) ==
    << cl_ord_id,
       Get(order, T60, EmptyStr),
       Get(message, T60, EmptyStr),
       Or(Get(order, T55, EmptyStr), Get(message, T55, EmptyStr)),
       Or(Get(order, T54, EmptyStr), Get(message, T54, EmptyStr)),
       Or(Get(order, T38, EmptyStr), Get(message, T38, EmptyStr)),
       Or(Get(order, T44, EmptyStr), Get(message, T44, EmptyStr)),
       Get(message, T6, EmptyStr),
       Get(message, T30, EmptyStr) >>

\* a slip: the new order updates the stored one, keeping the stored value
\* of a field the new order leaves empty
OrdersAfterNewOrder_Merge(ords, message) ==
    LET cl_ord_id == Get(message, T11, NoneStr)
        new == OrderEntry(cl_ord_id, message)
    IN  IF Not(cl_ord_id)
        THEN ords
        ELSE IF cl_ord_id \notin DOMAIN ords
        THEN Put(ords, cl_ord_id, new)
        ELSE Put(ords, cl_ord_id,
                 [t \in DOMAIN new |-> Or(new[t], ords[cl_ord_id][t])])

\* a slip: the order is stored whether or not it carries an identifier
OrdersAfterNewOrder_NoIdCheck(ords, message) ==
    LET cl_ord_id == Get(message, T11, NoneStr)
    IN  Put(ords, cl_ord_id, OrderEntry(cl_ord_id, message))

\* fix_to_csv.py:97-111  msg_type == 'D'
OrdersAfterNewOrder(ords, message) ==
    LET cl_ord_id == Get(message, T11, NoneStr)
    IN  IF Not(cl_ord_id)
        THEN ords
        ELSE Put(ords, cl_ord_id, OrderEntry(cl_ord_id, message))

\* a slip: the matched order is taken out of the store (orders.pop)
OrdersAfterExecution_Pop(ords, message) ==
    LET cl_ord_id == Get(message, T11, NoneStr)
    IN  IF IsFullLimitFill(message) /\ cl_ord_id \in DOMAIN ords
        THEN [x \in (DOMAIN ords) \ {cl_ord_id} |-> ords[x]]
        ELSE ords

\* a slip: a matched fill stamps its own time on the stored order
OrdersAfterExecution_Touch(ords, message) ==
    LET cl_ord_id == Get(message, T11, NoneStr)
    IN  IF IsFullLimitFill(message) /\ cl_ord_id \in DOMAIN ords
        THEN Put(ords, cl_ord_id,
                 [ords[cl_ord_id] EXCEPT ![T60] = Get(message, T60, EmptyStr)])
        ELSE ords

\* fix_to_csv.py:113-151  msg_type == '8': the store is read, never written
OrdersAfterExecution(ords, message) == ords

\* a slip: the newest row is kept on top, right under the first record
writerow_OnTop(file, row) ==
    IF file = <<>> THEN <<row>> ELSE <<Head(file), row>> \o Tail(file)

\* fix_to_csv.py:86, 141  writer.writerow(row) on the rows written so far
writerow(file, row) == Append(file, row)

\* a slip: a fill whose order was never seen is written from the execution
\* report alone
OutAfterExecution_NoLookup(file, ords, message) ==
    IF ~IsFullLimitFill(message)
    THEN file
    ELSE LET cl_ord_id == Get(message, T11, NoneStr)
         IN  IF Not(cl_ord_id)
             THEN file
             ELSE IF cl_ord_id \notin DOMAIN ords
             THEN writerow(file, FillRow(cl_ord_id, EmptyDict, message))
             ELSE writerow(file, FillRow(cl_ord_id, ords[cl_ord_id], message))

\* fix_to_csv.py:113-151  msg_type == '8': the output after the message
OutAfterExecution(file, ords, message) ==
    IF ~IsFullLimitFill(message)
    THEN file
    ELSE LET cl_ord_id == Get(message, T11, NoneStr)
         IN  IF Not(cl_ord_id)
             THEN file
             ELSE IF cl_ord_id \notin DOMAIN ords
             THEN file
             ELSE writerow(file, FillRow(cl_ord_id, ords[cl_ord_id], message))

----------------------------------------------------------------------------
(* The copy in "Assignment 1/fix_to_csv.py" *)

\* a slip: the pipe is tried before the control character
SOH_CHARS_v1_PipeFirst == <<"|", SOH, SOH>>

\* Assignment 1/fix_to_csv.py:10
SOH_CHARS_v1 == <<SOH, SOH, "|">>

\* Assignment 1/fix_to_csv.py:17-21  the loop over SOH_CHARS from its i-th
\* item on: the first c that is in the line, None when the loop runs out
RECURSIVE sep_v1(_, _)
sep_v1(s, i) ==
    IF i > Len(SOH_CHARS_v1) THEN None
    ELSE IF Contains(SOH_CHARS_v1[i], s) THEN SOH_CHARS_v1[i]
    ELSE sep_v1(s, i + 1)

\* Assignment 1/fix_to_csv.py:23-27
parts_v1(s) ==
    IF sep_v1(s, 1) = None
    THEN split_ws(strip(s))
    ELSE split_sep(strip(s), sep_v1(s, 1))

\* Assignment 1/fix_to_csv.py:30-40  the loop over parts from its i-th item
\* on, flds being the dict built so far
RECURSIVE fields_v1(_, _, _)
fields_v1(ps, i, flds) ==
    IF i > Len(ps) THEN flds
    ELSE LET p == ps[i]
             eq == Find("=", p)
         IN  IF Len(p) = 0 \/ ~Contains("=", p)
             THEN fields_v1(ps, i + 1, flds)
             ELSE fields_v1(ps, i + 1,
                      Put(flds, SubSeq(p, 1, eq - 1),
                                SubSeq(p, eq + 1, Len(p))))

\* Assignment 1/fix_to_csv.py:13-42
split_fix_message_v1(s) == fields_v1(parts_v1(s), 1, EmptyDict)

\* Assignment 1/fix_to_csv.py:51-61
header_v1 == <<
    <<"O", "r", "d", "e", "r", "I", "D">>,
    <<"O", "r", "d", "e", "r", "T", "r", "a", "n", "s", "a", "c", "t",
      "T", "i", "m", "e">>,
    <<"E", "x", "e", "c", "u", "t", "i", "o", "n", "T", "r", "a", "n", "s",
      "a", "c", "t", "T", "i", "m", "e">>,
    <<"S", "y", "m", "b", "o", "l">>,
    <<"S", "i", "d", "e">>,
    <<"O", "r", "d", "e", "r", "Q", "t", "y">>,
    <<"L", "i", "m", "i", "t", "P", "r", "i", "c", "e">>,
    <<"A", "v", "g", "P", "x">>,
    <<"L", "a", "s", "t", "M", "k", "t">> >>

\* Assignment 1/fix_to_csv.py:81-96  the store after a line whose message
\* is msg: only the branch msg_type == 'D' assigns to it
orders_after_v1(ords, msg) ==
    LET clord == Get(msg, T11, NoneStr)
    IN  IF Get(msg, T35, NoneStr) = <<"D">> /\ ~Not(clord)
        THEN Put(ords, clord,
                 [t \in {T11, T60, T55, T54, T38, T44} |->
                     IF t = T11 THEN clord ELSE Get(msg, t, EmptyStr)])
        ELSE ords

\* Assignment 1/fix_to_csv.py:98-137  the rows after a line whose message is
\* msg: only the branch msg_type == '8' writes, past its three `continue`
rows_after_v1(file, ords, msg) ==
    LET clord == Get(msg, T11, NoneStr)
        order == Get(ords, clord, EmptyDict)
    IN  IF Get(msg, T35, NoneStr) # <<"8">>
        THEN file
        ELSE IF \/ Get(msg, T150, NoneStr) # <<"2">>
                \/ Get(msg, T39, NoneStr) # <<"2">>
                \/ Get(msg, T40, NoneStr) # <<"2">>
        THEN file
        ELSE IF Not(clord)
        THEN file
        ELSE IF order = EmptyDict
        THEN file
        ELSE writerow(file,
                 << clord,
                    Get(order, T60, EmptyStr),
                    Get(msg, T60, EmptyStr),
                    Or(Get(order, T55, EmptyStr), Get(msg, T55, EmptyStr)),
                    Or(Get(order, T54, EmptyStr), Get(msg, T54, EmptyStr)),
                    Or(Get(order, T38, EmptyStr), Get(msg, T38, EmptyStr)),
                    Or(Get(order, T44, EmptyStr), Get(msg, T44, EmptyStr)),
                    Get(msg, T6, EmptyStr),
                    Get(msg, T30, EmptyStr) >>)

----------------------------------------------------------------------------
(* somewhat_smart_order_router.py: best_price_improvement *)

\* Python numbers and None: a finite number, NaN, float('-inf'), None
Num(v) == [kind |-> "num", v |-> v]
NaN == [kind |-> "nan", v |-> 0]
NegInf == [kind |-> "-inf", v |-> 0]
NoneNum == [kind |-> "None", v |-> 0]

\* somewhat_smart_order_router.py:92  a > b on floats: false when either is
\* NaN, nothing is below -inf
Greater(a, b) ==
    IF a.kind = "nan" \/ b.kind = "nan" THEN FALSE
    ELSE IF a.kind = "-inf" THEN FALSE
    ELSE IF b.kind = "-inf" THEN TRUE
    ELSE a.v > b.v

\* somewhat_smart_order_router.py:71  np.isnan
isnan(x) == x.kind = "nan"

\* a slip: only 'B' is a buy
SideNumeric_BOnly(side) == IF side = "B" THEN 1 ELSE 0

\* somewhat_smart_order_router.py:68  side_numeric
SideNumeric(side) == IF side = "B" \/ side = "1" THEN 1 ELSE 0

\* a slip: only None is replaced, NaN is passed on
CleanSize_NoneOnly(size) == IF size.kind # "None" THEN size ELSE Num(0)

\* somewhat_smart_order_router.py:71-72  a size that is None or NaN is 0
CleanSize(size) ==
    IF size.kind # "None" /\ ~isnan(size) THEN size ELSE Num(0)

\* somewhat_smart_order_router.py:66-83  the one row of `features`
Features(a) ==
    << Num(SideNumeric(a.side)), a.quantity, a.limit_price, a.bid_price,
       a.ask_price, CleanSize(a.bid_size), CleanSize(a.ask_size) >>

\* somewhat_smart_order_router.py:91  model.predict(features)[0] for a
\* fitted regression pipeline: it raises when the model is broken or a
\* feature is not a finite number, and gives a finite number otherwise,
\* here base + wside * side_numeric + wsize * (bid_size + ask_size)
predict(model, x) ==
    IF model.fails \/ \E i \in 1..Len(x) : x[i].kind # "num"
    THEN [raised |-> TRUE, value |-> NaN]
    ELSE [raised |-> FALSE,
          value |-> Num(model.base + model.wside * x[1].v
                        + model.wsize * (x[6].v + x[7].v))]

\* a slip: no comparison, the model considered last is the one kept
Consider_LastWins(best, exchange, prediction) ==
    [exchange |-> exchange, prediction |-> prediction]

\* somewhat_smart_order_router.py:92-94  the best so far after a prediction
Consider(best, exchange, prediction) ==
    IF Greater(prediction, best.prediction)
    THEN [exchange |-> exchange, prediction |-> prediction]
    ELSE best

\* a slip: the loop is left at the first prediction that raises
RECURSIVE Scan_StopAtFailure(_, _, _, _)
Scan_StopAtFailure(models, i, x, best) ==
    IF i > Len(models) THEN best
    ELSE LET p == predict(models[i].model, x)
         IN  IF p.raised
             THEN best
             ELSE Scan_StopAtFailure(models, i + 1, x,
                      Consider(best, models[i].exchange, p.value))

\* somewhat_smart_order_router.py:86-97  the loop over models.items(), from
\* its i-th item on: a prediction that raises is passed over
RECURSIVE Scan(_, _, _, _)
Scan(models, i, x, best) ==
    IF i > Len(models) THEN best
    ELSE LET p == predict(models[i].model, x)
         IN  IF p.raised
             THEN Scan(models, i + 1, x, best)
             ELSE Scan(models, i + 1, x,
                      Consider(best, models[i].exchange, p.value))

\* somewhat_smart_order_router.py:61-102  what the call returns once the
\* models are at hand
Route(models, a) ==
    IF models = <<>>
    THEN [outcome |-> "return", exchange |-> None, improvement |-> NegInf]
    ELSE LET best == Scan(models, 1, Features(a),
                          [exchange |-> None, prediction |-> NegInf])
         IN  IF best.exchange = None
             THEN [outcome |-> "return", exchange |-> None,
                   improvement |-> NegInf]
             ELSE [outcome |-> "return", exchange |-> best.exchange,
                   improvement |-> best.prediction]

\* somewhat_smart_order_router.py:42-46  model_paths, by position
model_paths == 1..3

\* somewhat_smart_order_router.py:50-51  a path that does not exist, and a
\* path where joblib.load gives the model set ms
Absent == [exists |-> FALSE, models |-> <<>>]
File(ms) == [exists |-> TRUE, models |-> ms]

\* somewhat_smart_order_router.py:48-52  the first of the paths that exists,
\* 0 when none does
FirstExisting(fs) ==
    IF \A path \in model_paths : ~fs[path].exists THEN 0
    ELSE CHOOSE path \in model_paths :
            /\ fs[path].exists
            /\ \A q \in model_paths : q < path => ~fs[q].exists

\* somewhat_smart_order_router.py:40  hasattr is false
Unset == [set |-> FALSE, models |-> <<>>]

\* no call made yet
NoArgs ==
    [symbol |-> "", side |-> "", quantity |-> NoneNum,
     limit_price |-> NoneNum, bid_price |-> NoneNum, ask_price |-> NoneNum,
     bid_size |-> NoneNum, ask_size |-> NoneNum]
NoResult == [outcome |-> "none", exchange |-> None, improvement |-> NegInf]

RouterIdle ==
    /\ files = [path \in model_paths |-> Absent]
    /\ cached = Unset
    /\ loads = 0
    /\ args = NoArgs
    /\ features = <<>>
    /\ result = NoResult
    /\ calls = 0

----------------------------------------------------------------------------
(* Specification of split_fix_message called on its own *)

Alphabet == {SOH, "|", " ", "=", "a", "1"}

AllLines == UNION {[1..k -> Alphabet] : k \in 0..MaxLineLen}

\* the two lines A=1<SOH>B=2<SOH> and A=1|B=2|
ExampleLines ==
    { << "A", "=", "1", sep, "B", "=", "2", sep >> : sep \in {SOH, "|"} }

ProcIdle ==
    /\ env = [input |-> "ok", output |-> "ok"]
    /\ pc = "start"
    /\ orders = EmptyDict
    /\ out = <<>>
    /\ seen = <<>>
    /\ n = 0
    /\ runs = 0
    /\ earlier = {}
    /\ orders_v1 = EmptyDict
    /\ out_v1 = <<>>

SplitInit ==
    /\ line \in AllLines \cup ExampleLines
    /\ separator = None
    /\ parts = <<>>
    /\ fields = EmptyDict
    /\ returned = FALSE
    /\ ProcIdle
    /\ RouterIdle

Split ==
    /\ ~returned
    /\ separator' = DetectSeparator(line)
    /\ parts' = SplitParts(line, separator')
    /\ fields' = split_fix_message(line)
    /\ returned' = TRUE
    /\ UNCHANGED <<line, procVars, runVars, routerVars, pairVars>>

SplitNext == Split

SpecSplit == SplitInit /\ [][SplitNext]_vars


----------------------------------------------------------------------------
(* The input lines the file is drawn from *)

A == <<"A">>
B == <<"B">>
D == <<"D">>
Two == <<"2">>
One == <<"1">>
Eight == <<"8">>

\* one tag=value token
Tok(tag, value) == tag \o <<"=">> \o value

\* a line of tokens, each followed by the separator, as FIX writes it
RECURSIVE Encode(_, _)
Encode(toks, sep) ==
    IF toks = <<>> THEN <<>> ELSE Head(toks) \o <<sep>> \o Encode(Tail(toks), sep)

\* the three sub-fields of a full fill of a limit order
Fill == << Tok(T150, Two), Tok(T39, Two), Tok(T40, Two) >>

NewOrderLines == {
    \* a complete order for A
    Encode(<< Tok(T35, D), Tok(T11, A), Tok(T60, <<"t", "1">>),
              Tok(T55, <<"X">>), Tok(T54, One), Tok(T38, <<"7">>),
              Tok(T44, <<"p">>) >>, SOH),
    \* an order for A with a timestamp and a symbol only
    Encode(<< Tok(T35, D), Tok(T11, A), Tok(T60, <<"t", "2">>),
              Tok(T55, <<"Y">>) >>, "|"),
    \* an order for A with no other field
    Encode(<< Tok(T35, D), Tok(T11, A) >>, " "),
    \* an order for A whose symbol holds a pipe and an equals sign
    Encode(<< Tok(T35, D), Tok(T11, A), Tok(T55, <<"X", "|", "=">>) >>, SOH),
    \* a complete order for B
    Encode(<< Tok(T35, D), Tok(T11, B), Tok(T60, <<"t", "1">>),
              Tok(T55, <<"X">>), Tok(T54, One), Tok(T38, <<"7">>),
              Tok(T44, <<"p">>) >>, SOH),
    \* orders with no ClOrdID and with an empty one
    Encode(<< Tok(T35, D), Tok(T60, <<"t", "1">>), Tok(T55, <<"X">>) >>, SOH),
    Encode(<< Tok(T35, D), Tok(T11, <<>>), Tok(T60, <<"t", "1">>) >>, "|") }

ExecutionLines == {
    \* a full fill for A with every field
    Encode(<< Tok(T35, Eight), Tok(T11, A) >> \o Fill \o
           << Tok(T60, <<"t", "3">>), Tok(T55, <<"Z">>), Tok(T54, Two),
              Tok(T38, <<"9">>), Tok(T44, <<"r">>), Tok(T6, <<"a">>),
              Tok(T30, <<"m">>) >>, SOH),
    \* a full fill for A with no other field
    Encode(<< Tok(T35, Eight), Tok(T11, A) >> \o Fill, " "),
    \* a full fill for B
    Encode(<< Tok(T35, Eight), Tok(T11, B) >> \o Fill \o
           << Tok(T60, <<"t", "4">>), Tok(T6, <<"b">>), Tok(T30, <<"m">>) >>,
           "|"),
    \* full fills with no ClOrdID and with an empty one
    Encode(<< Tok(T35, Eight) >> \o Fill \o << Tok(T60, <<"t", "3">>) >>, SOH),
    Encode(<< Tok(T35, Eight), Tok(T11, <<>>) >> \o Fill, "|") }

\* execution reports for A in which one of the three sub-fields is another
\* value or is missing
OtherExecutionLines ==
    { Encode(<< Tok(T35, Eight), Tok(T11, A), Tok(T150, v[1]), Tok(T39, v[2]),
                Tok(T40, v[3]), Tok(T60, <<"t", "3">>), Tok(T6, <<"a">>) >>, SOH) :
        v \in { <<One, Two, Two>>, <<Two, One, Two>>, <<Two, Two, One>> } }
    \cup
    { Encode(<< Tok(T35, Eight), Tok(T11, A) >> \o ts \o
             << Tok(T60, <<"t", "3">>), Tok(T6, <<"a">>) >>, "|") :
        ts \in { << Tok(T39, Two), Tok(T40, Two) >>,
                 << Tok(T150, Two), Tok(T40, Two) >>,
                 << Tok(T150, Two), Tok(T39, Two) >> } }

OtherLines == {
    \* another message type, and no message type
    Encode(<< Tok(T35, A), Tok(T11, A) >> \o Fill, SOH),
    Encode(<< Tok(T11, A) >> \o Fill, " "),
    \* no tag=value token, only whitespace, nothing
    << "h", "i" >>,
    << " " >>,
    << >> }

\* the identifier and the two timestamps of the two-line example
A1 == << "A", "1" >>
Time1 ==
    << "2", "0", "2", "4", "0", "1", "0", "2", "-", "0", "9", ":", "3",
       "0", ":", "0", "0", ".", "0", "0", "0" >>
Time2 ==
    << "2", "0", "2", "4", "0", "1", "0", "2", "-", "0", "9", ":", "3",
       "0", ":", "0", "1", ".", "5", "0", "0" >>

\* the two-line example: an order for A1 and its full fill
ExampleOrderLine ==
    Encode(<< Tok(T35, D), Tok(T11, A1), Tok(T60, Time1),
              Tok(T55, <<"X", "Y", "Z">>), Tok(T54, One),
              Tok(T38, <<"1", "0", "0">>),
              Tok(T44, <<"1", "0", ".", "5", "0">>) >>, SOH)
ExampleFillLine ==
    Encode(<< Tok(T35, Eight), Tok(T11, A1), Tok(T60, Time2) >> \o Fill
           \o << Tok(T6, <<"1", "0", ".", "4", "0">>),
                 Tok(T30, <<"N", "A", "S", "D">>) >>, SOH)

\* every line but the last of a file ends with a newline
InputLines ==
    { l \o <<"\n">> : l \in NewOrderLines \cup ExecutionLines
                          \cup OtherExecutionLines \cup OtherLines
                          \cup {ExampleOrderLine, ExampleFillLine} }
    \cup { << "h", "i" >> }

\* fix_to_csv.py:89, 93  what the loop computes from each raw line of the
\* input, tabulated once per line: line = raw_line.rstrip('\n') and
\* message = split_fix_message(line)
Decoded ==
    [raw_line \in InputLines |->
        [line |-> rstrip_nl(raw_line),
         message |-> split_fix_message(rstrip_nl(raw_line))]]

----------------------------------------------------------------------------
(* Specification of process_fix_file *)

SplitIdle ==
    /\ line = <<>>
    /\ separator = None
    /\ parts = <<>>
    /\ fields = EmptyDict
    /\ returned = FALSE

\* fix_to_csv.py:83-84, 178  the input path names no regular file
\* ("missing"), a file that open() refuses ("unreadable") or a file that
\* opens ("ok"); the output path opens for writing ("ok") or open() refuses
\* it ("unwritable")
Envs == [input : {"ok", "missing", "unreadable"}, output : {"ok", "unwritable"}]

\* fix_to_csv.py:178  os.path.isfile(args.input_fix_file)
isfile(e) == e.input # "missing"

\* the run starts in main or with a direct call of process_fix_file
Init ==
    /\ env \in Envs
    /\ pc \in {"main", "start"}
    /\ orders = EmptyDict
    /\ out = <<>>
    /\ seen = <<>>
    /\ n = 0
    /\ runs = 0
    /\ earlier = {}
    /\ orders_v1 = EmptyDict
    /\ out_v1 = <<>>
    /\ SplitIdle
    /\ RouterIdle

\* fix_to_csv.py:154-193  main up to the call of process_fix_file: it
\* returns 2 when the input path names no regular file
Main ==
    /\ pc = "main"
    /\ pc' = IF isfile(env) THEN "start" ELSE "exit2"
    /\ UNCHANGED <<env, orders, out, seen, n,
                   splitVars, runVars, routerVars, pairVars>>

\* a slip: the output is opened and the header written before the input is
\* opened
OpenRaises_OutputFirst ==
    /\ pc = "start"
    /\ env.input # "ok" \/ env.output # "ok"
    /\ orders' = EmptyDict
    /\ out' = IF env.output = "ok" THEN writerow(<<>>, csv_header) ELSE out
    /\ pc' = "raised"
    /\ UNCHANGED <<env, seen, n, splitVars, runVars, routerVars, pairVars>>

\* fix_to_csv.py:69-84  open() of the input, then of the output, raises:
\* the with statement is left before its body runs
OpenRaises ==
    /\ pc = "start"
    /\ env.input # "ok" \/ env.output # "ok"
    /\ orders' = EmptyDict
    /\ out' = out
    /\ pc' = "raised"
    /\ UNCHANGED <<env, seen, n, splitVars, runVars, routerVars, pairVars>>

\* a slip: the store is not local to the invocation (a module-level dict)
Open_KeepStore ==
    /\ pc = "start"
    /\ env.input = "ok" /\ env.output = "ok"
    /\ orders' = orders
    /\ out' = writerow(<<>>, csv_header)
    /\ pc' = "loop"
    /\ UNCHANGED <<env, seen, n, splitVars, runVars, routerVars, pairVars>>

\* fix_to_csv.py:69-86  both files open, the header written
Open ==
    /\ pc = "start"
    /\ env.input = "ok" /\ env.output = "ok"
    /\ orders' = EmptyDict
    /\ out' = writerow(<<>>, csv_header)
    /\ pc' = "loop"
    /\ UNCHANGED <<env, seen, n, splitVars, runVars, routerVars, pairVars>>

\* a slip: a plain else in place of the test for '8', so that every message
\* that is not a new order is handled as an execution report
ProcessLine_NoTypeCheck(raw_line) ==
    /\ pc = "loop"
    /\ n < MaxLines
    /\ n' = n + 1
    /\ LET message == Decoded[raw_line].message
           msg_type == Get(message, T35, NoneStr)
       IN  IF Decoded[raw_line].line = EmptyStr
           THEN UNCHANGED <<orders, out, seen>>
           ELSE /\ seen' = Append(seen, message)
                /\ IF msg_type = D
                   THEN /\ orders' = OrdersAfterNewOrder(orders, message)
                        /\ out' = out
                   ELSE /\ orders' = OrdersAfterExecution(orders, message)
                        /\ out' = OutAfterExecution(out, orders, message)
    /\ UNCHANGED <<env, pc, splitVars, runVars, routerVars, pairVars>>

\* a slip: a new order is matched with a full fill for its id that was read
\* before it, and the row written then
ProcessLine_BackFill(raw_line) ==
    /\ pc = "loop"
    /\ n < MaxLines
    /\ n' = n + 1
    /\ LET message == Decoded[raw_line].message
           msg_type == Get(message, T35, NoneStr)
           cl_ord_id == Get(message, T11, NoneStr)
           held == {i \in 1..Len(seen) :
                      /\ Get(seen[i], T35, NoneStr) = Eight
                      /\ IsFullLimitFill(seen[i])
                      /\ Get(seen[i], T11, NoneStr) = cl_ord_id}
       IN  IF Decoded[raw_line].line = EmptyStr
           THEN UNCHANGED <<orders, out, seen>>
           ELSE /\ seen' = Append(seen, message)
                /\ IF msg_type = D
                   THEN /\ orders' = OrdersAfterNewOrder(orders, message)
                        /\ out' = IF Not(cl_ord_id) \/ held = {}
                                  THEN out
                                  ELSE writerow(out,
                                           FillRow(cl_ord_id,
                                               OrderEntry(cl_ord_id, message),
                                               seen[CHOOSE i \in held : TRUE]))
                   ELSE IF msg_type = Eight
                   THEN /\ orders' = OrdersAfterExecution(orders, message)
                        /\ out' = OutAfterExecution(out, orders, message)
                   ELSE UNCHANGED <<orders, out>>
    /\ UNCHANGED <<env, pc, splitVars, runVars, routerVars, pairVars>>

\* fix_to_csv.py:88-151  one iteration of the loop over the input lines
ProcessLine(raw_line) ==
    /\ pc = "loop"
    /\ n < MaxLines
    /\ n' = n + 1
    /\ LET message == Decoded[raw_line].message
           msg_type == Get(message, T35, NoneStr)
       IN  IF Decoded[raw_line].line = EmptyStr
           THEN UNCHANGED <<orders, out, seen>>
           ELSE /\ seen' = Append(seen, message)
                /\ IF msg_type = D
                   THEN /\ orders' = OrdersAfterNewOrder(orders, message)
                        /\ out' = out
                   ELSE IF msg_type = Eight
                   THEN /\ orders' = OrdersAfterExecution(orders, message)
                        /\ out' = OutAfterExecution(out, orders, message)
                   ELSE UNCHANGED <<orders, out>>
    /\ UNCHANGED <<env, pc, splitVars, runVars, routerVars, pairVars>>

\* fix_to_csv.py:88  the input is exhausted, both files are closed
Close ==
    /\ pc = "loop"
    /\ pc' = "done"
    /\ UNCHANGED <<env, orders, out, seen, n,
                   splitVars, runVars, routerVars, pairVars>>

Next ==
    \/ Main
    \/ OpenRaises
    \/ Open
    \/ \E raw_line \in InputLines : ProcessLine(raw_line)
    \/ Close

Spec == Init /\ [][Next]_vars


----------------------------------------------------------------------------
(* Reading the history and the output *)

\* tag t of message m, the empty str when m has no such tag
FieldOf(m, t) == IF t \in DOMAIN m THEN m[t] ELSE <<>>

\* m is a new-order message (35=D) with correlation id x
NewOrderFor(m, x) ==
    /\ T35 \in DOMAIN m /\ m[T35] = <<"D">>
    /\ T11 \in DOMAIN m /\ m[T11] = x

\* m is an execution report (35=8)
ExecutionReport(m) == T35 \in DOMAIN m /\ m[T35] = <<"8">>

\* m carries 150=2, 39=2 and 40=2
AllThreeHold(m) ==
    /\ T150 \in DOMAIN m /\ m[T150] = <<"2">>
    /\ T39 \in DOMAIN m /\ m[T39] = <<"2">>
    /\ T40 \in DOMAIN m /\ m[T40] = <<"2">>

\* m is a qualifying execution report with correlation id x
QualifyingFor(m, x) ==
    /\ ExecutionReport(m)
    /\ AllThreeHold(m)
    /\ T11 \in DOMAIN m /\ m[T11] = x

\* the non-empty correlation ids that occur in the messages read so far
IdsSeen ==
    {seen[i][T11] : i \in {j \in 1..Len(seen) : T11 \in DOMAIN seen[j]}}
        \ {<<>>}

\* positions in the history of the new-order messages for x
NewOrdersAt(x) == {i \in 1..Len(seen) : NewOrderFor(seen[i], x)}

\* positions in the history of the qualifying execution reports for x
QualifyingAt(x) == {i \in 1..Len(seen) : QualifyingFor(seen[i], x)}

\* positions of the qualifying execution reports for x that come after a
\* new-order message for x
MatchedAt(x) ==
    {j \in QualifyingAt(x) : \E i \in NewOrdersAt(x) : i < j}

\* the last new-order message for x before position j
LastNewOrderBefore(x, j) ==
    seen[CHOOSE i \in NewOrdersAt(x) :
            i < j /\ \A k \in NewOrdersAt(x) : k < j => k <= i]

\* positions in the output of the data rows with OrderID x
RowsOf(x) == {r \in 2..Len(out) : out[r][1] = x}

\* the largest element of a non-empty set of numbers
MaxOf(S) == CHOOSE i \in S : \A k \in S : k <= i

----------------------------------------------------------------------------
(* C1 *)

\* C1 as stated: whenever the stream holds a new-order message for X that
\* is followed by exactly one qualifying execution report for X, the output
\* has exactly one row with OrderID X, carrying tag 60 of that new-order
\* message and tag 60 of the execution report.
C1_AsStated ==
    \A x \in IdsSeen : \A i \in NewOrdersAt(x) :
        LET after == {j \in QualifyingAt(x) : j > i}
        IN  Cardinality(after) = 1 =>
                /\ Cardinality(RowsOf(x)) = 1
                /\ \A r \in RowsOf(x) : \A j \in after :
                       /\ out[r][2] = FieldOf(seen[i], T60)
                       /\ out[r][3] = FieldOf(seen[j], T60)

\* C1 (amended): when exactly one qualifying execution report for a
\* non-empty id X comes after the first new-order message for X, the output
\* has exactly one row with OrderID X; its OrderTransactTime is tag 60 of
\* the last new-order message for X before that execution report and its
\* ExecutionTransactTime is tag 60 of the execution report.
C1_MatchedRow ==
    \A x \in IdsSeen :
        Cardinality(MatchedAt(x)) = 1 =>
            /\ Cardinality(RowsOf(x)) = 1
            /\ \A r \in RowsOf(x) : \A j \in MatchedAt(x) :
                   /\ out[r][2] = FieldOf(LastNewOrderBefore(x, j), T60)
                   /\ out[r][3] = FieldOf(seen[j], T60)

\* two new-order messages for A with different timestamps, then the one
\* qualifying execution report for A, with a timestamp of its own
C1_Witness ==
    /\ Len(seen) = 3
    /\ NewOrderFor(seen[1], A) /\ NewOrderFor(seen[2], A)
    /\ FieldOf(seen[1], T60) # FieldOf(seen[2], T60)
    /\ FieldOf(seen[2], T60) # <<>>
    /\ QualifyingFor(seen[3], A)
    /\ FieldOf(seen[3], T60) # <<>>
    /\ Cardinality(RowsOf(A)) = 1


----------------------------------------------------------------------------
(* C2 *)

\* the step reads a non-empty line; its message is the last of seen'
ReadsMessage == Len(seen') = Len(seen) + 1
Message == seen'[Len(seen')]

\* C2: an execution report in which 150, 39 or 40 is missing or is not '2'
\* writes no row and leaves the store as it is, whatever the store holds.
C2_OnlyFullLimitFills ==
    [][ (ReadsMessage /\ ExecutionReport(Message) /\ ~AllThreeHold(Message))
            => (out' = out /\ orders' = orders) ]_vars

\* an order for A is pending; an execution report for A without tag 150 and
\* one with 40=1 have been read, and no row was written
C2_Witness ==
    /\ Len(seen) = 3
    /\ NewOrderFor(seen[1], A)
    /\ ExecutionReport(seen[2]) /\ FieldOf(seen[2], T11) = A
    /\ T150 \notin DOMAIN seen[2]
    /\ FieldOf(seen[2], T39) = Two /\ FieldOf(seen[2], T40) = Two
    /\ ExecutionReport(seen[3]) /\ FieldOf(seen[3], T11) = A
    /\ FieldOf(seen[3], T150) = Two /\ FieldOf(seen[3], T39) = Two
    /\ FieldOf(seen[3], T40) = One
    /\ A \in DOMAIN orders
    /\ out = <<csv_header>>

----------------------------------------------------------------------------
(* C3 *)

\* C3: a qualifying execution report with no tag 11, or with an id that has
\* no pending order when it is read, writes no row, changes nothing in the
\* store and leaves the loop running.
C3_UnmatchedDropped ==
    [][ ( /\ ReadsMessage
          /\ ExecutionReport(Message) /\ AllThreeHold(Message)
          /\ (T11 \notin DOMAIN Message \/ Message[T11] \notin DOMAIN orders) )
            => (out' = out /\ orders' = orders /\ pc' = "loop") ]_vars

\* with an order for A pending, a full fill with no ClOrdID and a full fill
\* for B, which was never ordered, have been read; no row was written
C3_Witness ==
    /\ Len(seen) = 3
    /\ NewOrderFor(seen[1], A)
    /\ ExecutionReport(seen[2]) /\ AllThreeHold(seen[2])
    /\ T11 \notin DOMAIN seen[2]
    /\ QualifyingFor(seen[3], B)
    /\ DOMAIN orders = {A}
    /\ out = <<csv_header>>
    /\ pc = "loop"

----------------------------------------------------------------------------
(* C4 *)

\* a if a is not empty, else b
OrElse(a, b) == IF a = <<>> THEN b ELSE a

\* the row a fill m for x is to give when d is the new-order message it is
\* matched with
RowFrom(x, d, m) ==
    << x, FieldOf(d, T60), FieldOf(m, T60),
       OrElse(FieldOf(d, T55), FieldOf(m, T55)),
       OrElse(FieldOf(d, T54), FieldOf(m, T54)),
       OrElse(FieldOf(d, T38), FieldOf(m, T38)),
       OrElse(FieldOf(d, T44), FieldOf(m, T44)),
       FieldOf(m, T6), FieldOf(m, T30) >>

\* C4: the store holds, for each id, the captured fields of the last
\* new-order message for it and nothing of an earlier one; a qualifying
\* execution then gives a row made of that last message and of the
\* execution report alone.
C4_LastNewOrderWins ==
    /\ \A x \in IdsSeen :
          NewOrdersAt(x) # {} =>
              /\ x \in DOMAIN orders
              /\ \A t \in {T60, T55, T54, T38, T44} :
                     orders[x][t] = FieldOf(seen[MaxOf(NewOrdersAt(x))], t)
    /\ \A x \in IdsSeen :
          Len(seen) \in MatchedAt(x) =>
              /\ Len(out) >= 2
              /\ out[Len(out)] =
                     RowFrom(x, LastNewOrderBefore(x, Len(seen)), seen[Len(seen)])

\* a complete order for A, then an order for A that leaves the side empty,
\* then a full fill for A: the row does not carry the first order's side
C4_Witness ==
    /\ Len(seen) = 3
    /\ NewOrderFor(seen[1], A) /\ NewOrderFor(seen[2], A)
    /\ FieldOf(seen[1], T54) # <<>>
    /\ FieldOf(seen[2], T54) = <<>>
    /\ QualifyingFor(seen[3], A)
    /\ Len(out) = 2
    /\ out[2][5] # FieldOf(seen[1], T54)

----------------------------------------------------------------------------
(* C5 *)

\* C5: an order that was stored stays in the store, matched or not, and
\* every qualifying execution report that follows a new-order message for
\* its id gives a row: the rows of an id are as many as those reports.
C5_MatchedAgain ==
    \A x \in IdsSeen :
        /\ NewOrdersAt(x) # {} => x \in DOMAIN orders
        /\ Cardinality(RowsOf(x)) = Cardinality(MatchedAt(x))

\* one new-order message for A, two rows for A
C5_Witness ==
    /\ Cardinality(NewOrdersAt(A)) = 1
    /\ Cardinality(QualifyingAt(A)) = 2
    /\ Cardinality(RowsOf(A)) = 2

----------------------------------------------------------------------------
(* C6 *)

\* C6 as stated: a matched order is not used again, so the rows of an id
\* are never more than the new-order messages read for it.
C6_AsStated ==
    \A x \in IdsSeen : Cardinality(RowsOf(x)) <= Cardinality(NewOrdersAt(x))

\* C6 (amended): the store is looked up once per qualifying execution
\* report and a matched order is used again by a later one: the rows of an
\* id are never more than the qualifying execution reports read for it, and
\* there is none while no new-order message for the id has been read.
C6_OneRowPerFill ==
    \A x \in IdsSeen :
        /\ Cardinality(RowsOf(x)) <= Cardinality(QualifyingAt(x))
        /\ NewOrdersAt(x) = {} => RowsOf(x) = {}

\* more rows for A than new-order messages for A
C6_Witness ==
    /\ NewOrdersAt(A) # {}
    /\ Cardinality(RowsOf(A)) > Cardinality(NewOrdersAt(A))
    /\ pc = "done"


----------------------------------------------------------------------------
(* C7 *)

\* positions in the history of the execution reports that are matched: a
\* qualifying report for an id that a new-order message came before
AllMatchedAt == UNION {MatchedAt(x) : x \in IdsSeen}

\* the k-th smallest element of a set of numbers
Kth(S, k) == CHOOSE i \in S : Cardinality({j \in S : j < i}) = k - 1

\* C7: nothing is written before the files are open; from then on the
\* output is the header, once and first, and after it one row per matched
\* fill, the k-th row being the one of the k-th matched execution report of
\* the stream; with no matched fill the output is the header alone.
C7_HeaderThenRowsInOrder ==
    /\ pc \notin {"loop", "done"} => out = <<>>
    /\ pc \in {"loop", "done"} =>
          /\ Len(out) = 1 + Cardinality(AllMatchedAt)
          /\ out[1] = csv_header
          /\ \A r \in 2..Len(out) : out[r] # csv_header /\ Len(out[r]) = 9
          /\ \A k \in 1..Cardinality(AllMatchedAt) :
                 LET m == seen[Kth(AllMatchedAt, k)]
                 IN  /\ out[k + 1][1] = m[T11]
                     /\ out[k + 1][3] = FieldOf(m, T60)
                     /\ out[k + 1][8] = FieldOf(m, T6)
                     /\ out[k + 1][9] = FieldOf(m, T30)
          /\ AllMatchedAt = {} => out = <<csv_header>>

\* the input is exhausted after two matched fills whose rows differ
C7_Witness ==
    /\ pc = "done"
    /\ Len(out) = 3
    /\ out[2] # out[3]
    /\ out[2][3] # out[3][3]

----------------------------------------------------------------------------
(* C8 *)

\* the step writes a data row; the row is the last of out'
WritesRow == pc = "loop" /\ Len(out') = Len(out) + 1
Row == out'[Len(out')]

\* C8: in the row written for an execution report, Symbol, Side, OrderQty
\* and LimitPrice are the pending order's value unless that is empty, and
\* then the execution report's (empty if it has none); OrderTransactTime is
\* the pending order's and nothing else; ExecutionTransactTime, AvgPx and
\* LastMkt are the execution report's.
C8_FieldFallback ==
    [][ WritesRow =>
          /\ ReadsMessage
          /\ T11 \in DOMAIN Message
          /\ Message[T11] \in DOMAIN orders
          /\ LET order == orders[Message[T11]]
                 col == [t \in {T55, T54, T38, T44} |->
                            IF t = T55 THEN 4 ELSE IF t = T54 THEN 5
                            ELSE IF t = T38 THEN 6 ELSE 7]
             IN  /\ \A t \in {T55, T54, T38, T44} :
                        /\ order[t] # <<>> => Row[col[t]] = order[t]
                        /\ (order[t] = <<>> /\ t \in DOMAIN Message)
                               => Row[col[t]] = Message[t]
                        /\ (order[t] = <<>> /\ t \notin DOMAIN Message)
                               => Row[col[t]] = <<>>
                 /\ Row[2] = order[T60]
                 /\ Row[3] = FieldOf(Message, T60)
                 /\ Row[8] = FieldOf(Message, T6)
                 /\ Row[9] = FieldOf(Message, T30) ]_vars

\* the pending order for A has a symbol and no timestamp, side, quantity or
\* price; the execution report has them all: the row written has an empty
\* OrderTransactTime, the order's symbol and the execution's side
C8_Witness ==
    /\ Len(seen) >= 2 /\ Len(out) >= 2
    /\ QualifyingFor(seen[Len(seen)], A)
    /\ NewOrderFor(seen[Len(seen) - 1], A)
    /\ A \in DOMAIN orders
    /\ orders[A][T60] = <<>> /\ orders[A][T55] # <<>> /\ orders[A][T54] = <<>>
    /\ FieldOf(seen[Len(seen)], T60) # <<>>
    /\ FieldOf(seen[Len(seen)], T55) # <<>>
    /\ FieldOf(seen[Len(seen)], T54) # <<>>
    /\ out[Len(out)][2] = <<>>
    /\ out[Len(out)][4] = orders[A][T55]
    /\ out[Len(out)][5] = seen[Len(seen)][T54]


----------------------------------------------------------------------------
(* C9 *)

\* the parts, each followed by sep but the last
RECURSIVE JoinWith(_, _)
JoinWith(ps, sep) ==
    IF ps = <<>> THEN <<>>
    ELSE IF Len(ps) = 1 THEN ps[1]
    ELSE ps[1] \o <<sep>> \o JoinWith(Tail(ps), sep)

\* the parts one after the other
RECURSIVE Concat(_)
Concat(ps) == IF ps = <<>> THEN <<>> ELSE Head(ps) \o Concat(Tail(ps))

\* s without its whitespace
NoWhitespace(s) == SelectSeq(s, LAMBDA c : c \notin Whitespace)

\* the positions of s where a run of non-whitespace characters starts
WordStarts(s) ==
    {i \in 1..Len(s) :
        s[i] \notin Whitespace /\ (i = 1 \/ s[i - 1] \in Whitespace)}

\* the positions of s outside its leading and trailing whitespace
Inner(s) ==
    {i \in 1..Len(s) :
        /\ \E j \in 1..i : s[j] \notin Whitespace
        /\ \E j \in i..Len(s) : s[j] \notin Whitespace}

\* C9: the separator is SOH when the line holds one, else '|' when the
\* line holds one, else none.  With a separator, the parts are the line
\* (stripped) cut at every occurrence of that one character and nowhere
\* else: no part holds it and the parts joined by it give the line back,
\* so any '|' of a line that holds SOH is inside a part.  With none, the
\* parts are the maximal runs of non-whitespace characters of the line.
C9_OneSeparator ==
    returned =>
        /\ separator = IF Contains(SOH, line) THEN SOH
                       ELSE IF Contains("|", line) THEN "|" ELSE None
        /\ separator # None =>
              /\ \A i \in 1..Len(parts) : ~Contains(separator, parts[i])
              /\ JoinWith(parts, separator)
                     = [i \in 1..Cardinality(Inner(line)) |->
                            line[Kth(Inner(line), i)]]
              /\ separator = SOH =>
                     Len(SelectSeq(Concat(parts), LAMBDA c : c = "|"))
                         = Len(SelectSeq(line, LAMBDA c : c = "|"))
        /\ separator = None =>
              /\ \A i \in 1..Len(parts) :
                     parts[i] # <<>> /\ NoWhitespace(parts[i]) = parts[i]
              /\ Concat(parts) = NoWhitespace(line)
              /\ Len(parts) = Cardinality(WordStarts(line))

\* a line with both SOH and '|' was split on SOH, and a value of the
\* mapping holds the '|'
C9_Witness ==
    /\ returned
    /\ Contains(SOH, line) /\ Contains("|", line)
    /\ separator = SOH
    /\ Len(parts) >= 2
    /\ \E t \in DOMAIN fields : Contains("|", fields[t])

----------------------------------------------------------------------------
(* C10 *)

\* p begins with q
StartsWith(p, q) == Len(q) <= Len(p) /\ SubSeq(p, 1, Len(q)) = q

\* C10: every key of the mapping is free of '=' and, with '=' and its value
\* after it, is one of the parts, so that a key is the text before the
\* first '=' of its part and the value all the text after it; every part
\* that holds '=' has its key in the mapping; the parts with no '=' and the
\* empty ones give nothing, so that a line with no separator and no '='
\* gives the empty mapping.
C10_FirstEqualsOnly ==
    returned =>
        /\ \A t \in DOMAIN fields :
              /\ ~Contains("=", t)
              /\ \E i \in 1..Len(parts) : parts[i] = t \o <<"=">> \o fields[t]
        /\ \A i \in 1..Len(parts) :
              Contains("=", parts[i]) =>
                  \E t \in DOMAIN fields : StartsWith(parts[i], t \o <<"=">>)
        /\ Cardinality(DOMAIN fields)
               <= Cardinality({i \in 1..Len(parts) : Contains("=", parts[i])})
        /\ (separator = None /\ ~Contains("=", line)) => fields = EmptyDict

\* a part with two '=' gave a value that holds '=', next to an empty part
\* and to a part with no '='
C10_Witness ==
    /\ returned
    /\ \E t \in DOMAIN fields : Contains("=", fields[t])
    /\ \E i \in 1..Len(parts) : parts[i] = <<>>
    /\ \E i \in 1..Len(parts) : parts[i] # <<>> /\ ~Contains("=", parts[i])
    /\ Cardinality(DOMAIN fields) = 1


----------------------------------------------------------------------------
(* C11 *)

\* s with every a turned into b
Replace(s, a, b) == [i \in 1..Len(s) |-> IF s[i] = a THEN b ELSE s[i]]

\* C11: a line of tokens free of '|', each followed by SOH, decodes to the
\* mapping that the same tokens, each followed by '|', decode to.
C11_SeparatorIndependence ==
    ( /\ returned
      /\ ~Contains("|", line)
      /\ (line = <<>> \/ line[Len(line)] = SOH) )
        => fields = split_fix_message(Replace(line, SOH, "|"))

\* A=1<SOH>B=2<SOH> was decoded to A -> 1, B -> 2
C11_Witness ==
    /\ returned
    /\ line = << "A", "=", "1", SOH, "B", "=", "2", SOH >>
    /\ Replace(line, SOH, "|") \in ExampleLines
    /\ DOMAIN fields = { <<"A">>, <<"B">> }
    /\ fields[<<"A">>] = <<"1">> /\ fields[<<"B">>] = <<"2">>


----------------------------------------------------------------------------
(* C12 *)

\* m is a new-order message (35=D) without tag 11
NewOrderWithoutId(m) ==
    /\ T35 \in DOMAIN m /\ m[T35] = <<"D">>
    /\ T11 \notin DOMAIN m

\* C12: reading a new-order message without tag 11 leaves the store and the
\* output as they were; the store never gets an entry without an identifier,
\* and a row is only ever written for an identifier that a new-order message
\* read before carried in its tag 11.
C12_NoIdDropped ==
    [][ /\ (ReadsMessage /\ NewOrderWithoutId(Message))
            => (orders' = orders /\ out' = out)
        /\ \A x \in DOMAIN orders' : x # NoneStr /\ x # EmptyStr
        /\ WritesRow => NewOrdersAt(Row[1]) # {} ]_vars

\* a new-order message without tag 11 was read, then a qualifying execution
\* report for A: the store is empty and only the header is written
C12_Witness ==
    /\ Len(seen) = 2
    /\ NewOrderWithoutId(seen[1])
    /\ QualifyingFor(seen[2], A)
    /\ orders = EmptyDict
    /\ out = <<csv_header>>


----------------------------------------------------------------------------
(* C13 *)

\* m has no tag 35, or a tag 35 that is neither 'D' nor '8'
OtherType(m) ==
    T35 \in DOMAIN m => (m[T35] # <<"D">> /\ m[T35] # <<"8">>)

\* C13: reading a message whose tag 35 is missing or is neither 'D' nor '8'
\* leaves the store and the output as they were.
C13_OtherTypeNoEffect ==
    [][ (ReadsMessage /\ OtherType(Message))
            => (orders' = orders /\ out' = out) ]_vars

\* with an order for A pending, a message of another type and a message
\* without a type were read, both carrying A and the three fill sub-fields
C13_Witness ==
    /\ Len(seen) = 3
    /\ NewOrderFor(seen[1], A)
    /\ T35 \in DOMAIN seen[2] /\ OtherType(seen[2])
    /\ T35 \notin DOMAIN seen[3]
    /\ \A i \in 2..3 :
          AllThreeHold(seen[i]) /\ FieldOf(seen[i], T11) = A
    /\ DOMAIN orders = {A}
    /\ out = <<csv_header>>


----------------------------------------------------------------------------
(* C14 *)

\* the input cannot be opened for reading or the output for writing
CannotOpen == env.input # "ok" \/ env.output # "ok"

\* C14: when the input is missing or unreadable, or the output unwritable,
\* nothing is ever written to the output and every step of the run ends it,
\* but for main handing over to process_fix_file: main returns 2 when the
\* input is missing, and otherwise the run ends by an exception.
C14_FailsBeforeOutput ==
    [][ CannotOpen =>
          /\ out = <<>> /\ out' = <<>>
          /\ IF pc = "main" /\ env.input = "missing"
             THEN pc' = "exit2"
             ELSE IF pc = "main"
             THEN pc' = "start"
             ELSE pc = "start" /\ pc' = "raised" ]_vars

\* the input opened, the output did not: the run has ended by an exception
\* with nothing written
C14_Witness ==
    /\ env.input = "ok" /\ env.output = "unwritable"
    /\ pc = "raised"
    /\ out = <<>>


----------------------------------------------------------------------------
(* C15 *)

\* fix_to_csv.py:85, 141  csv.writer's text for one cell: a cell holding the
\* delimiter, the quote character or a line break is quoted, its quotes
\* doubled
csv_field(cell) ==
    IF \E i \in 1..Len(cell) : cell[i] \in {",", "\"", "\r", "\n"}
    THEN <<"\"">>
         \o Concat([i \in 1..Len(cell) |->
                       IF cell[i] = "\"" THEN <<"\"", "\"">> ELSE <<cell[i]>>])
         \o <<"\"">>
    ELSE cell

\* fix_to_csv.py:84-85, 141  the line csv.writer writes for a row: the
\* cells' texts with commas between them, then "\r\n"
csv_line(row) ==
    JoinWith([k \in 1..Len(row) |-> csv_field(row[k])], ",") \o <<"\r", "\n">>

\* the row of the two-line example, as text
ExampleRowText ==
    << "A", "1", ",", "2", "0", "2", "4", "0", "1", "0", "2", "-", "0",
       "9", ":", "3", "0", ":", "0", "0", ".", "0", "0", "0", ",", "2",
       "0", "2", "4", "0", "1", "0", "2", "-", "0", "9", ":", "3", "0",
       ":", "0", "1", ".", "5", "0", "0", ",", "X", "Y", "Z", ",", "1",
       ",", "1", "0", "0", ",", "1", "0", ".", "5", "0", ",", "1", "0",
       ".", "4", "0", ",", "N", "A", "S", "D" >>

\* the values of the fields that column k of the row of a fill m may take,
\* d being the new-order message the fill is matched with
Sources(k, d, m) ==
    LET from(src, t) == IF t \in DOMAIN src THEN {src[t]} ELSE {}
    IN  IF k = 1 THEN from(m, T11)
        ELSE IF k = 2 THEN from(d, T60)
        ELSE IF k = 3 THEN from(m, T60)
        ELSE IF k = 4 THEN from(d, T55) \cup from(m, T55)
        ELSE IF k = 5 THEN from(d, T54) \cup from(m, T54)
        ELSE IF k = 6 THEN from(d, T38) \cup from(m, T38)
        ELSE IF k = 7 THEN from(d, T44) \cup from(m, T44)
        ELSE IF k = 8 THEN from(m, T6)
        ELSE from(m, T30)

\* C15: every row written has nine cells, the k-th taken from the fields of
\* the k-th column (OrderID, OrderTransactTime, ExecutionTransactTime,
\* Symbol, Side, OrderQty, LimitPrice, AvgPx, LastMkt) and empty when
\* neither message has them; the two-line example gives the header and the
\* one row A1,20240102-09:30:00.000,20240102-09:30:01.500,XYZ,1,100,10.50,
\* 10.40,NASD.
C15_NineCellsInOrder ==
    [][ WritesRow =>
          /\ Len(Row) = 9
          /\ LET d == LastNewOrderBefore(Row[1], Len(seen) + 1)
             IN  \A k \in 1..9 :
                    IF Sources(k, d, Message) = {}
                    THEN Row[k] = <<>>
                    ELSE Row[k] \in Sources(k, d, Message)
          /\ seen' = << Decoded[ExampleOrderLine \o <<"\n">>].message,
                        Decoded[ExampleFillLine \o <<"\n">>].message >>
                => /\ out' = <<csv_header, Row>>
                   /\ csv_line(Row) = ExampleRowText \o <<"\r", "\n">> ]_vars

\* the two lines of the example were read and the one row written
C15_Witness ==
    /\ n = 2
    /\ seen = << Decoded[ExampleOrderLine \o <<"\n">>].message,
                 Decoded[ExampleFillLine \o <<"\n">>].message >>
    /\ Len(out) = 2
    /\ csv_line(out[2]) = ExampleRowText \o <<"\r", "\n">>


----------------------------------------------------------------------------
(* Specification of process_fix_file invoked several times in one process *)

\* the lines of the inputs: an order for A, an order for B, a full fill of A
RerunLines ==
    { l \o <<"\n">> : l \in {
        Encode(<< Tok(T35, D), Tok(T11, A) >>, " "),
        Encode(<< Tok(T35, D), Tok(T11, B), Tok(T60, <<"t", "1">>),
                  Tok(T55, <<"X">>), Tok(T54, One), Tok(T38, <<"7">>),
                  Tok(T44, <<"p">>) >>, SOH),
        Encode(<< Tok(T35, Eight), Tok(T11, A) >> \o Fill, " ") } }

\* fix_to_csv.py:56  process_fix_file has returned and is called again, on
\* another input: the locals of the invocation that returned are gone (the
\* model leaves the old store in place until the new one is made), nothing
\* is read or written yet
Again ==
    /\ pc = "done"
    /\ runs < MaxRuns
    /\ runs' = runs + 1
    /\ earlier' = earlier \cup {x \in IdsSeen : NewOrdersAt(x) # {}}
    /\ pc' = "start"
    /\ seen' = <<>>
    /\ n' = 0
    /\ out' = <<>>
    /\ UNCHANGED <<env, orders, splitVars, routerVars, pairVars>>

NextRuns ==
    \/ Main
    \/ OpenRaises
    \/ Open
    \/ \E raw_line \in RerunLines : ProcessLine(raw_line)
    \/ Close
    \/ Again

SpecRuns == Init /\ [][NextRuns]_vars

----------------------------------------------------------------------------
(* C16 *)

\* C16: in every invocation the store holds entries only for the ids of the
\* new-order messages this invocation has read, so it is empty when the
\* invocation starts reading, and every row written is for such an id: a
\* fill is never matched with an order that only an earlier invocation read.
C16_StorePerInvocation ==
    pc \in {"loop", "done"} =>
        /\ \A x \in DOMAIN orders : NewOrdersAt(x) # {}
        /\ \A r \in 2..Len(out) : NewOrdersAt(out[r][1]) # {}

\* an earlier invocation read an order for A; this one read a full fill of
\* A and no order for A, and has written the header alone
C16_Witness ==
    /\ runs >= 1
    /\ A \in earlier
    /\ pc = "done"
    /\ QualifyingAt(A) # {}
    /\ NewOrdersAt(A) = {}
    /\ A \notin DOMAIN orders
    /\ out = <<csv_header>>


----------------------------------------------------------------------------
(* Specification of best_price_improvement *)

Exchanges == {"NYSE", "NASD"}

\* the fitted models: one that raises, and three regressions, one constant,
\* one that grows with side_numeric, one that grows with the two sizes
Broken == [fails |-> TRUE, base |-> 0, wside |-> 0, wsize |-> 0]
Predictors ==
    { Broken,
      [fails |-> FALSE, base |-> 1, wside |-> 0, wsize |-> 0],
      [fails |-> FALSE, base |-> 0, wside |-> 2, wsize |-> 0],
      [fails |-> FALSE, base |-> 0, wside |-> 0, wsize |-> 1] }

\* the dicts {exchange: model}, the empty one too, in the order of their
\* items
ModelSets ==
    { ms \in UNION { [1..k -> [exchange : Exchanges, model : Predictors]] :
                        k \in 0..Cardinality(Exchanges) } :
        \A i, j \in 1..Len(ms) : i # j => ms[i].exchange # ms[j].exchange }

\* the model set a later path holds when an earlier one exists too
Decoy ==
    << [exchange |-> "NASD",
        model |-> [fails |-> FALSE, base |-> 1, wside |-> 0, wsize |-> 0]] >>

\* no path exists; or the first path holds any model set and the others
\* are absent or hold another model set; or only the last path exists and
\* holds any model set
FileSystems ==
    { [path \in model_paths |-> Absent] }
    \cup
    { [path \in model_paths |->
          IF path = 1 THEN File(ms)
          ELSE IF later THEN File(Decoy) ELSE Absent] :
        ms \in ModelSets, later \in BOOLEAN }
    \cup
    { [path \in model_paths |-> IF path = 3 THEN File(ms) ELSE Absent] :
        ms \in ModelSets }

\* the arguments of a call: a side, each size a number, None or NaN
ArgSets ==
    [symbol : {"XYZ"}, side : {"B", "1", "S"}, quantity : {Num(1)},
     limit_price : {Num(1)}, bid_price : {Num(1)}, ask_price : {Num(1)},
     bid_size : {NoneNum, NaN, Num(0), Num(1)},
     ask_size : {NoneNum, NaN, Num(0), Num(1)}]

RouterInit ==
    /\ files \in FileSystems
    /\ cached = Unset
    /\ loads = 0
    /\ args = NoArgs
    /\ features = <<>>
    /\ result = NoResult
    /\ calls = 0
    /\ ProcIdle
    /\ SplitIdle

\* train_models.py:275-276  a training run saves its models to
\* models.joblib, the first of the paths, while the process is running
SaveModels ==
    /\ files[1] # File(Decoy)
    /\ files' = [files EXCEPT ![1] = File(Decoy)]
    /\ UNCHANGED <<cached, loads, args, features, result, calls,
                   procVars, runVars, splitVars, pairVars>>

\* a slip: the models are looked up and loaded on every call
BestPriceImprovement_Reload(a) ==
    /\ calls < MaxCalls
    /\ calls' = calls + 1
    /\ args' = a
    /\ LET first == FirstExisting(files)
       IN  IF first = 0
           THEN /\ result' = [outcome |-> "FileNotFoundError",
                              exchange |-> None, improvement |-> NegInf]
                /\ features' = <<>>
                /\ UNCHANGED <<cached, loads>>
           ELSE /\ cached' = [set |-> TRUE, models |-> files[first].models]
                /\ loads' = loads + 1
                /\ features' = IF cached'.models = <<>> THEN <<>>
                               ELSE Features(a)
                /\ result' = Route(cached'.models, a)
    /\ UNCHANGED <<files, procVars, runVars, splitVars, pairVars>>

\* somewhat_smart_order_router.py:13-102  one call of best_price_improvement
BestPriceImprovement(a) ==
    /\ calls < MaxCalls
    /\ calls' = calls + 1
    /\ args' = a
    /\ LET first == FirstExisting(files)
       IN  IF ~cached.set /\ first = 0
           THEN /\ result' = [outcome |-> "FileNotFoundError",
                              exchange |-> None, improvement |-> NegInf]
                /\ features' = <<>>
                /\ UNCHANGED <<cached, loads>>
           ELSE /\ IF ~cached.set
                   THEN /\ cached' = [set |-> TRUE,
                                      models |-> files[first].models]
                        /\ loads' = loads + 1
                   ELSE UNCHANGED <<cached, loads>>
                /\ features' = IF cached'.models = <<>> THEN <<>>
                               ELSE Features(a)
                /\ result' = Route(cached'.models, a)
    /\ UNCHANGED <<files, procVars, runVars, splitVars, pairVars>>

RouterNext ==
    \/ \E a \in ArgSets : BestPriceImprovement(a)
    \/ SaveModels

SpecRouter == RouterInit /\ [][RouterNext]_vars


----------------------------------------------------------------------------
(* C17 *)

\* the latest call returned, with the model set ms at hand
Returned == calls >= 1 /\ result.outcome = "return"

\* the prediction of the i-th model of the cached set on the features of the
\* latest call
PredictionOf(i) == predict(cached.models[i].model, features)

\* C17: when the model set is not empty and every model predicts, the call
\* returns an exchange of the set, with that exchange's own prediction,
\* which is above -inf and below no other exchange's prediction.
C17_BestOfAll ==
    ( /\ Returned
      /\ cached.models # <<>>
      /\ \A i \in 1..Len(cached.models) : ~PredictionOf(i).raised )
        => /\ result.exchange # None
           /\ \E i \in 1..Len(cached.models) :
                 /\ cached.models[i].exchange = result.exchange
                 /\ PredictionOf(i).value = result.improvement
           /\ Greater(result.improvement, NegInf)
           /\ \A j \in 1..Len(cached.models) :
                 ~Greater(PredictionOf(j).value, result.improvement)

\* two models predicted, the second more than the first, and the second
\* exchange was returned with its prediction
C17_Witness ==
    /\ Returned
    /\ Len(cached.models) = 2
    /\ ~PredictionOf(1).raised /\ ~PredictionOf(2).raised
    /\ Greater(PredictionOf(2).value, PredictionOf(1).value)
    /\ result.exchange = cached.models[2].exchange
    /\ result.improvement = PredictionOf(2).value


----------------------------------------------------------------------------
(* C18 *)

\* a size that is None or NaN
Missing(size) == size.kind = "None" \/ size.kind = "nan"

\* the arguments a with each missing size given as 0
Zeroed(a) ==
    [a EXCEPT !.bid_size = IF Missing(@) THEN Num(0) ELSE @,
              !.ask_size = IF Missing(@) THEN Num(0) ELSE @]

\* the latest call returned and had a missing bid_size or ask_size
ReturnedWithMissingSize ==
    Returned /\ (Missing(args.bid_size) \/ Missing(args.ask_size))

\* C18 as stated: a call with a missing bid_size or ask_size and a non-empty
\* model set returns a non-None exchange, and its result is the result of
\* the same call with that size given as 0.
C18_AsStated ==
    (ReturnedWithMissingSize /\ cached.models # <<>>)
        => /\ result.exchange # None
           /\ result = Route(cached.models, Zeroed(args))

\* C18: a call with a missing bid_size or ask_size returns what the same
\* call with that size given as 0 returns, and returns a non-None exchange
\* when at least one model of the set predicts.
C18_MissingSizeIsZero ==
    ReturnedWithMissingSize
        => /\ result = Route(cached.models, Zeroed(args))
           /\ (\E i \in 1..Len(cached.models) :
                  ~predict(cached.models[i].model,
                           Features(Zeroed(args))).raised)
                 => result.exchange # None

\* bid_size was None and ask_size NaN: the call returned an exchange, as
\* with both sizes 0 and unlike with both sizes 1
C18_Witness ==
    /\ Returned
    /\ args.bid_size = NoneNum /\ args.ask_size = NaN
    /\ cached.models # <<>>
    /\ features[6] = Num(0) /\ features[7] = Num(0)
    /\ result.exchange # None
    /\ result = Route(cached.models, Zeroed(args))
    /\ result # Route(cached.models,
                      [args EXCEPT !.bid_size = Num(1), !.ask_size = Num(1)])


----------------------------------------------------------------------------
(* C19 *)

\* C19: the first feature is 1 when side is 'B' or '1' and 0 for any other
\* side, and a call with side '1' returns what the same call with side 'B'
\* returns, and the other way round.
C19_BothBuySides ==
    Returned =>
        /\ features # <<>> =>
              features[1] = IF args.side \in {"B", "1"} THEN Num(1) ELSE Num(0)
        /\ args.side = "1" =>
              result = Route(cached.models, [args EXCEPT !.side = "B"])
        /\ args.side = "B" =>
              result = Route(cached.models, [args EXCEPT !.side = "1"])

\* a call with side '1' was encoded as a buy and returned what side 'B'
\* gives, which is not what a sell gives
C19_Witness ==
    /\ Returned
    /\ args.side = "1"
    /\ features # <<>> /\ features[1] = Num(1)
    /\ result.exchange # None
    /\ result = Route(cached.models, [args EXCEPT !.side = "B"])
    /\ result # Route(cached.models, [args EXCEPT !.side = "S"])

----------------------------------------------------------------------------
(* C20 *)

\* the models of the cached set whose prediction on x does not raise
Predicting(x) ==
    SelectSeq(cached.models, LAMBDA item : ~predict(item.model, x).raised)

\* C20: a call that finds the model set empty, or every prediction raising,
\* returns (None, -inf); in any case it returns what it would with the
\* models whose prediction raises taken out of the set.
C20_NoneWhenNoPrediction ==
    Returned =>
        /\ ( \/ cached.models = <<>>
             \/ \A i \in 1..Len(cached.models) : PredictionOf(i).raised )
              => (result.exchange = None /\ result.improvement = NegInf)
        /\ result = Route(Predicting(Features(args)), args)

\* the set has two models and both predictions raised: (None, -inf)
C20_Witness ==
    /\ Returned
    /\ Len(cached.models) = 2
    /\ PredictionOf(1).raised /\ PredictionOf(2).raised
    /\ result.exchange = None
    /\ result.improvement = NegInf


----------------------------------------------------------------------------
(* Specification of the two copies of process_fix_file run side by side *)

\* Assignment 1/fix_to_csv.py:70, 76  what the loop of that copy computes
\* from each raw line, tabulated once per line: line = raw.rstrip('\n') and
\* msg = split_fix_message(line)
Decoded_v1 ==
    [raw \in InputLines |->
        [line |-> rstrip_nl(raw),
         msg |-> split_fix_message_v1(rstrip_nl(raw))]]

PairInit == ProcIdle /\ SplitIdle /\ RouterIdle

\* fix_to_csv.py:69-86 and Assignment 1/fix_to_csv.py:49-66  each copy
\* makes its store, opens its files and writes its header
OpenBoth ==
    /\ pc = "start"
    /\ env.input = "ok" /\ env.output = "ok"
    /\ orders' = EmptyDict
    /\ out' = writerow(<<>>, csv_header)
    /\ orders_v1' = EmptyDict
    /\ out_v1' = writerow(<<>>, header_v1)
    /\ pc' = "loop"
    /\ UNCHANGED <<env, seen, n, splitVars, runVars, routerVars>>

\* fix_to_csv.py:88-151 and Assignment 1/fix_to_csv.py:69-137  one
\* iteration of the loop of each copy, on the same raw line
ProcessLineBoth(raw_line) ==
    /\ pc = "loop"
    /\ n < MaxLines
    /\ n' = n + 1
    /\ LET message == Decoded[raw_line].message
           msg_type == Get(message, T35, NoneStr)
       IN  IF Decoded[raw_line].line = EmptyStr
           THEN UNCHANGED <<orders, out, seen>>
           ELSE /\ seen' = Append(seen, message)
                /\ IF msg_type = D
                   THEN /\ orders' = OrdersAfterNewOrder(orders, message)
                        /\ out' = out
                   ELSE IF msg_type = Eight
                   THEN /\ orders' = OrdersAfterExecution(orders, message)
                        /\ out' = OutAfterExecution(out, orders, message)
                   ELSE UNCHANGED <<orders, out>>
    /\ LET msg == Decoded_v1[raw_line].msg
       IN  IF Len(Decoded_v1[raw_line].line) = 0
           THEN UNCHANGED <<orders_v1, out_v1>>
           ELSE /\ orders_v1' = orders_after_v1(orders_v1, msg)
                /\ out_v1' = rows_after_v1(out_v1, orders_v1, msg)
    /\ UNCHANGED <<env, pc, splitVars, runVars, routerVars>>

PairNext ==
    \/ OpenBoth
    \/ \E raw_line \in InputLines : ProcessLineBoth(raw_line)
    \/ Close

SpecPair == PairInit /\ [][PairNext]_vars

----------------------------------------------------------------------------
(* C21 *)

\* C21: with the two copies stepped side by side over the same lines, after
\* every line their stores are equal and the rows they have written are the
\* same, header included.
C21_CopiesAgree ==
    /\ orders_v1 = orders
    /\ out_v1 = out

\* both copies hold an order for A whose symbol has a pipe and an equals
\* sign in it, and have written the same row for its fill
C21_Witness ==
    /\ pc = "loop"
    /\ A \in DOMAIN orders /\ A \in DOMAIN orders_v1
    /\ orders[A][T55] = << "X", "|", "=" >>
    /\ orders_v1[A] = orders[A]
    /\ Len(out) = 2 /\ Len(out_v1) = 2
    /\ out[2][4] = << "X", "|", "=" >>
    /\ out_v1[2] = out[2]


----------------------------------------------------------------------------
(* C22 *)

\* C22: a qualifying execution report read before any new-order message for
\* its id writes nothing, and reading a new-order message writes nothing,
\* whatever was read before it; a row is written only by the step that
\* reads a qualifying execution report for the row's id while the store
\* holds that id, and is added after the header and the rows written before.
C22_NoLookAheadNoBackFill ==
    [][ /\ \A x \in IdsSeen' :
              (ReadsMessage /\ QualifyingFor(Message, x) /\ NewOrdersAt(x) = {})
                  => out' = out
        /\ (ReadsMessage /\ Get(Message, T35, NoneStr) = D) => out' = out
        /\ (out' # out /\ out # <<>>) =>
              /\ ReadsMessage
              /\ out' = Append(out, Row)
              /\ QualifyingFor(Message, Row[1])
              /\ Row[1] \in DOMAIN orders ]_vars

\* a full fill of A was read, then an order for A, then a full fill of A
\* again: one row, for the second fill
C22_Witness ==
    /\ Len(seen) = 3
    /\ QualifyingFor(seen[1], A)
    /\ NewOrderFor(seen[2], A)
    /\ QualifyingFor(seen[3], A)
    /\ FieldOf(seen[1], T60) # FieldOf(seen[3], T60)
    /\ Len(out) = 2
    /\ out[2][1] = A
    /\ out[2][3] = FieldOf(seen[3], T60)

----------------------------------------------------------------------------
(* C23 *)

\* C23: a step that reads an execution report leaves the store as it was;
\* the store changes only in a step that reads a new-order message; no id
\* ever leaves the store; every entry's own tag 11 is the key it is under.
C23_OnlyNewOrdersChangeStore ==
    [][ /\ (ReadsMessage /\ ExecutionReport(Message)) => orders' = orders
        /\ orders' # orders =>
              (ReadsMessage /\ Get(Message, T35, NoneStr) = D)
        /\ DOMAIN orders \subseteq DOMAIN orders'
        /\ \A x \in DOMAIN orders' : orders'[x][T11] = x ]_vars

\* an order for A was read, then a matched full fill of A, then an
\* execution report for A that is no full fill: the store still holds the
\* order as it was captured
C23_Witness ==
    /\ Len(seen) = 3
    /\ NewOrderFor(seen[1], A)
    /\ QualifyingFor(seen[2], A)
    /\ ExecutionReport(seen[3]) /\ ~AllThreeHold(seen[3])
    /\ FieldOf(seen[3], T11) = A
    /\ Len(out) = 2
    /\ DOMAIN orders = {A}
    /\ orders[A][T11] = A
    /\ orders[A][T60] = FieldOf(seen[1], T60)
    /\ FieldOf(seen[1], T60) # FieldOf(seen[2], T60)


----------------------------------------------------------------------------
(* C24 *)

\* the step is a call of best_price_improvement
Calls == calls' = calls + 1

\* some searched path exists
SomePathExists == \E path \in model_paths : files[path].exists

\* C24: joblib.load is called at most once.  A call that finds the cache
\* unset and a models file loads the file at the first path that exists,
\* stores its model set and routes with it; a call that finds the cache set
\* keeps it, loads nothing and routes with the stored set, whatever the
\* files hold by then; a call that finds the cache unset and no path
\* existing raises FileNotFoundError and leaves the cache unset, so that
\* the next call searches again; nothing but a call touches the cache.
C24_LoadedOnce ==
    [][ /\ loads' <= 1
        /\ ~Calls => (cached' = cached /\ loads' = loads)
        /\ (Calls /\ ~cached.set /\ SomePathExists) =>
              /\ cached'.set
              /\ \E path \in model_paths :
                    /\ files[path].exists
                    /\ \A q \in model_paths : q < path => ~files[q].exists
                    /\ cached'.models = files[path].models
              /\ loads' = loads + 1
              /\ result' = Route(cached'.models, args')
        /\ (Calls /\ cached.set) =>
              /\ cached' = cached
              /\ loads' = loads
              /\ result' = Route(cached.models, args')
        /\ (Calls /\ ~cached.set /\ ~SomePathExists) =>
              /\ result'.outcome = "FileNotFoundError"
              /\ cached' = Unset
              /\ loads' = loads ]_vars

\* the first call loaded a model set, the file was then replaced, and the
\* second call routed with the set loaded first, not with the file's
C24_Witness ==
    /\ calls = 2
    /\ loads = 1
    /\ cached.set
    /\ files[1].exists /\ files[1].models # cached.models
    /\ result = Route(cached.models, args)
    /\ result # Route(files[1].models, args)

====
